---- MODULE Spec2Model ----
(***************************************************************************)
(* The asynchronous refresh engine of the terminal dashboard               *)
(* (pkg/tui/tui.go): the foreground loop of Run, the four list workers     *)
(* launched by refreshData, the buffered channel dataChan and the consumer *)
(* goroutine handleDataUpdates, together with the selection and filter     *)
(* fields the foreground loop keeps while collections are replaced.        *)
(***************************************************************************)
EXTENDS Integers, Sequences, FiniteSets, TLC

(***************************************************************************)
(* Bounds of the model.                                                    *)
(***************************************************************************)
\* refreshData calls explored by Spec
MaxRefresh == 2
\* Spec: a further refresh starts over at most this many unconsumed results
MaxStale == 1
\* SpecFilter: longest collection filtered
MaxLen == 2
\* SpecRel: pods in the cluster the relationships are derived from
MaxPods == 1
\* SpecFilter: filtering passes applied one after the other
MaxPasses == 2
\* refreshData calls made by Run and the refresh keys, explored by SpecNs
MaxRefreshN == 1
\* namespace switches explored by SpecNs
MaxSwitch == 1
\* refreshData calls explored by SpecCreate
MaxRefreshC == 1
\* refreshData calls explored by SpecOrder
MaxRefreshO == 2
\* refreshData calls explored by SpecMutate
MaxRefreshM == 1
\* delete calls explored by SpecMutate
MaxDelete == 1
\* createPod calls explored by SpecView
MaxCreate == 1
\* refreshData calls explored by SpecView, each started after the previous
\* cycle's results are consumed
MaxRefreshV == 2
\* refreshData calls explored by SpecQueue
MaxRefreshQ == 3

(***************************************************************************)
(* Program constants.                                                      *)
(***************************************************************************)
ResourcePods == 0
ResourceDeployments == 1
ResourceServices == 2
ResourceConfigMaps == 3
\* refreshData: t.loadingCounter = 4 // 4 resource types
NumResourceTypes == 4
\* ViewMode
ViewModeList == 0
ViewModeDetails == 1
ViewModeYAML == 2
ViewModeLogs == 3
ViewModeRelationships == 4
ViewModes == ViewModeList .. ViewModeRelationships

\* a channel that holds the results of one refresh cycle only
DataChanCapOneCycle == NumResourceTypes

\* NewTUI: make(chan *DataUpdate, 10)
DataChanCap == 10

ResourceTypes == 0 .. (NumResourceTypes - 1)

(***************************************************************************)
(* Resource names are strings, modelled as sequences of characters.        *)
(***************************************************************************)
NameA == <<"a">>
NameB == <<"B">>
NameAB == <<"a", "B">>

\* []v1.Pod(nil) and the empty list have the same length and elements
Nil == << >>

\* what a successful gateway list call may return
ListResponses == { <<NameAB, NameB>>, <<NameA, NameB>> }
\* Spec: the one list the gateway returns for each kind on success
KindList(k) ==
    CASE k = ResourcePods -> <<NameA, NameB>>
      [] k = ResourceDeployments -> <<NameAB>>
      [] k = ResourceServices -> <<NameB>>
      [] k = ResourceConfigMaps -> <<NameA>>

\* SpecFilter: the names, collections, filter texts and flags filtered
Names == {NameA, NameB, NameAB}
Collections == UNION { [1 .. n -> Names] : n \in 0 .. MaxLen }
SearchTexts == { << >>, <<"a">>, <<"b">>, <<"B">>, <<"a", "b">> }
\* NewTUI: make([]string, 5)
NoColumnFilters == << << >>, << >>, << >>, << >>, << >> >>
\* column filters: none, or one on the first column (the name)
ColumnFilterStates ==
    { NoColumnFilters, [NoColumnFilters EXCEPT ![1] = <<"a">>],
      [NoColumnFilters EXCEPT ![1] = <<"B">>] }
FlagStates == [filterMode : BOOLEAN, caseSensitive : BOOLEAN,
               inverseFilter : BOOLEAN, useRegex : BOOLEAN,
               columnFilters : ColumnFilterStates]

\* what the user may confirm in the search dialog
FilterTexts == { << >>, <<"b">> }

(***************************************************************************)
(* strings.ToLower and strings.Contains                                    *)
(***************************************************************************)
ToLowerChar(c) == IF c = "A" THEN "a" ELSE IF c = "B" THEN "b" ELSE c

ToLower(s) == [i \in 1 .. Len(s) |-> ToLowerChar(s[i])]

Contains(s, sub) ==
    \E i \in 0 .. (Len(s) - Len(sub)) :
        \A j \in 1 .. Len(sub) : s[i + j] = sub[j]

(***************************************************************************)
(* The state of the TUI struct and of the goroutines.                      *)
(***************************************************************************)
VARIABLES
    pods, deployments, services, configMaps,  \* t.pods, t.deployments, ...
    selected,        \* t.selected
    filter,          \* t.filter
    currentView,     \* t.currentView
    loading,         \* t.loading
    loadingCounter,  \* t.loadingCounter
    dataChan,        \* t.dataChan: the buffered channel, oldest message first
    workers,         \* the list goroutines that have not yet sent their update
    fgPc,            \* where the foreground loop (Run) stands
    cycle,           \* history: number of refreshData calls so far
    creates,         \* history: number of createPod calls so far
    posted,          \* history: updates sent so far, per <<cycle, kind>>
    handled,         \* history: updates of the current cycle consumed so far
    overlapped,      \* history: the current cycle started over unconsumed results
    fetched,         \* history: per kind, the current cycle's result once consumed
    viewMode,        \* t.viewMode
    showHelp,        \* t.showHelp
    lastKey,         \* history: the last view-mode key handled, and where
    filterFlags,     \* t.filterMode, t.caseSensitive, t.inverseFilter,
                     \* t.useRegex, t.columnFilters
    shown,           \* the slice the last filtering pass returned
    passes,          \* history: filtering passes applied to shown so far
    namespace,       \* t.namespace
    resource,        \* deleteSelectedResource: the local variable resource
    deleteCalls,     \* history: the delete calls issued to the gateway
    saved,           \* history: loading and loadingCounter when createPod began
    called,          \* history: the list calls made, with the t.namespace each read
    nsChoice,        \* history: how the namespace dialog was last left
    cluster,         \* the pods, services and deployments the relationships
                     \* view is drawn from, with labels, selectors and owners
    relationships    \* what getResourceRelationships returned

collVars == <<pods, deployments, services, configMaps>>
viewVars == <<selected, filter, currentView>>
histVars == <<cycle, creates, posted, handled, overlapped, fetched>>
modeVars == <<viewMode, showHelp, lastKey>>
relVars == <<cluster, relationships>>
pureVars == <<filterFlags, shown, passes, relVars>>
nsVars == <<called, nsChoice>>
mutVars == <<namespace, resource, deleteCalls, saved, nsVars>>
vars == <<pods, deployments, services, configMaps, selected, filter, currentView,
          loading, loadingCounter, dataChan, workers, fgPc,
          cycle, creates, posted, handled, overlapped, fetched,
          viewMode, showHelp, lastKey, filterFlags, shown, passes,
          namespace, resource, deleteCalls, saved, called, nsChoice,
          cluster, relationships>>

\* no object loaded, and getResourceRelationships not yet called
NoCluster == [pods |-> << >>, services |-> << >>, deployments |-> << >>]
NotRelated == [computed |-> FALSE, edges |-> << >>]

\* the namespace dialog has not been left yet
NoChoice == [key |-> "none", name |-> ""]

NoResult == [Error |-> FALSE, Data |-> Nil, seen |-> FALSE]

\* getSelectedResource returned nil
NoResource == [kind |-> ResourcePods, name |-> << >>]

\* saved while no createPod is under way
NotSaved == [set |-> FALSE, loading |-> FALSE, loadingCounter |-> 0]

\* lastKey when the last key handled was not a view-mode key
NoKey == [key |-> "none", mode |-> ViewModeList, help |-> FALSE, sel |-> 0]

\* lastKey after the key k
Pressed(k) == [key |-> k, mode |-> viewMode, help |-> showHelp, sel |-> selected]

\* the filter flags as NewTUI sets them
NoFlags == [filterMode |-> FALSE, caseSensitive |-> FALSE,
            inverseFilter |-> FALSE, useRegex |-> FALSE,
            columnFilters |-> NoColumnFilters]

\* the collection shown for a kind
Collection(k) ==
    CASE k = ResourcePods -> pods
      [] k = ResourceDeployments -> deployments
      [] k = ResourceServices -> services
      [] k = ResourceConfigMaps -> configMaps

\* a switch whose every case assigns t.pods
SetCollectionPodsOnly(k, v) ==
    /\ pods' = v
    /\ UNCHANGED <<deployments, services, configMaps>>

SetCollection(k, v) ==
    /\ pods' = IF k = ResourcePods THEN v ELSE pods
    /\ deployments' = IF k = ResourceDeployments THEN v ELSE deployments
    /\ services' = IF k = ResourceServices THEN v ELSE services
    /\ configMaps' = IF k = ResourceConfigMaps THEN v ELSE configMaps

(***************************************************************************)
(* Filtering.  filterMode, caseSensitive, inverseFilter, useRegex and      *)
(* columnFilters are set by NewTUI and no statement of the program writes  *)
(* them (the program keeps filterFlags = NoFlags).  A resource of the      *)
(* model carries its name only: the name is its first column and its other *)
(* columns are empty.                                                      *)
(***************************************************************************)
\* a match that never folds case
GlobalMatchExact(value, f, caseSensitive) == Contains(value, f)

\* the branches taken when useRegex is unset
GlobalMatch(value, f, caseSensitive) ==
    IF caseSensitive
    THEN Contains(value, f)
    ELSE Contains(ToLower(value), ToLower(f))

\* a regex branch that matches the pattern against the whole value
RegexMatchWhole(value, f, caseSensitive) ==
    IF caseSensitive THEN value = f ELSE ToLower(value) = ToLower(f)

\* the branches taken when useRegex is set ("TODO: Implement regex matching")
RegexMatch(value, f, caseSensitive) ==
    IF caseSensitive
    THEN Contains(value, f)
    ELSE Contains(ToLower(value), ToLower(f))

\* getTableHeaders: the number of headers of a kind
NumHeaders(kind) == IF kind = ResourceConfigMaps THEN 3 ELSE 5

\* getResourceColumnValue, columns counted from 1
ColumnValue(name, i) == IF i = 1 THEN name ELSE << >>

\* the loop over t.columnFilters
ColumnsMatch(name, columnFilters, headers, caseSensitive, useRegex) ==
    \A i \in 1 .. Len(columnFilters) :
        \/ columnFilters[i] = << >>
        \/ i > headers
        \/ IF useRegex
           THEN RegexMatch(ColumnValue(name, i), columnFilters[i], caseSensitive)
           ELSE GlobalMatch(ColumnValue(name, i), columnFilters[i], caseSensitive)

matchesFilter(name, f, filterMode, caseSensitive, inverseFilter, useRegex, columnFilters, headers) ==
    IF f = << >> /\ ~filterMode THEN TRUE
    ELSE IF name = << >> THEN FALSE
    ELSE IF ~filterMode THEN GlobalMatch(name, f, caseSensitive)
    ELSE LET global == IF f # << >>
                       THEN (IF useRegex
                             THEN RegexMatch(name, f, caseSensitive)
                             ELSE GlobalMatch(name, f, caseSensitive))
                       ELSE TRUE
             match == global /\ ColumnsMatch(name, columnFilters, headers,
                                             caseSensitive, useRegex)
         IN  IF inverseFilter THEN ~match ELSE match

\* a filtering loop that starts at the second resource
FilteredViewSkippingFirst(resources, f, filterMode, caseSensitive, inverseFilter, useRegex, columnFilters, headers) ==
    IF f = << >> /\ ~filterMode
    THEN resources
    ELSE SelectSeq(IF resources = << >> THEN resources ELSE Tail(resources),
                   LAMBDA r : matchesFilter(r, f, filterMode, caseSensitive,
                                            inverseFilter, useRegex,
                                            columnFilters, headers))

FilteredView(resources, f, filterMode, caseSensitive, inverseFilter, useRegex, columnFilters, headers) ==
    IF f = << >> /\ ~filterMode
    THEN resources
    ELSE SelectSeq(resources,
                   LAMBDA r : matchesFilter(r, f, filterMode, caseSensitive,
                                            inverseFilter, useRegex,
                                            columnFilters, headers))

\* the filtered view of a collection of a kind under given flags
ViewUnder(resources, kind, f, flags) ==
    FilteredView(resources, f, flags.filterMode, flags.caseSensitive,
                 flags.inverseFilter, flags.useRegex, flags.columnFilters,
                 NumHeaders(kind))

\* t.getFilteredResources() in the current state
getFilteredResources ==
    ViewUnder(Collection(currentView), currentView, filter, filterFlags)

\* t.getFilteredPods() in the current state
getFilteredPods ==
    IF filter = << >>
    THEN pods
    ELSE SelectSeq(pods, LAMBDA pod : Contains(ToLower(pod), ToLower(filter)))

(***************************************************************************)
(* Selection helpers.                                                      *)
(***************************************************************************)
\* adjustSelection, and the same two tests at the end of loadPods
adjustSelection(sel, maxItems) ==
    LET s1 == IF sel >= maxItems THEN maxItems - 1 ELSE sel
    IN  IF s1 < 0 THEN 0 ELSE s1

\* a moveSelection without the upper clamp
movedSelectionUnclamped(sel, delta, n) ==
    LET s1 == sel + delta
    IN  IF s1 < 0 THEN 0 ELSE s1

\* the body of moveSelection once the filtered view is known to be non-empty
movedSelection(sel, delta, n) ==
    LET s1 == sel + delta
        s2 == IF s1 < 0 THEN 0 ELSE s1
    IN  IF s2 >= n THEN n - 1 ELSE s2

(***************************************************************************)
(* Initial state: the struct NewTUI returns; Run has not yet called        *)
(* refreshData.                                                            *)
(***************************************************************************)
\* a constructor that starts in the namespace "default"
InitInDefaultNamespace ==
    /\ pods = Nil
    /\ deployments = << >>
    /\ services = << >>
    /\ configMaps = << >>
    /\ selected = 0
    /\ filter = << >>
    /\ currentView = ResourcePods
    /\ loading = FALSE
    /\ loadingCounter = 0
    /\ dataChan = << >>
    /\ workers = {}
    /\ fgPc = "start"
    /\ cycle = 0
    /\ creates = 0
    /\ posted = << >>
    /\ handled = 0
    /\ overlapped = FALSE
    /\ fetched = [k \in ResourceTypes |-> NoResult]
    /\ viewMode = ViewModeList
    /\ showHelp = FALSE
    /\ lastKey = NoKey
    /\ filterFlags = NoFlags
    /\ shown = Nil
    /\ passes = 0
    /\ namespace = "default"
    /\ resource = NoResource
    /\ deleteCalls = << >>
    /\ saved = NotSaved
    /\ called = {}
    /\ nsChoice = NoChoice
    /\ cluster = NoCluster
    /\ relationships = NotRelated

Init ==
    /\ pods = Nil
    /\ deployments = << >>
    /\ services = << >>
    /\ configMaps = << >>
    /\ selected = 0
    /\ filter = << >>
    /\ currentView = ResourcePods
    /\ loading = FALSE
    /\ loadingCounter = 0
    /\ dataChan = << >>
    /\ workers = {}
    /\ fgPc = "start"
    /\ cycle = 0
    /\ creates = 0
    /\ posted = << >>
    /\ handled = 0
    /\ overlapped = FALSE
    /\ fetched = [k \in ResourceTypes |-> NoResult]
    /\ viewMode = ViewModeList
    /\ showHelp = FALSE
    /\ lastKey = NoKey
    /\ filterFlags = NoFlags
    /\ shown = Nil
    /\ passes = 0
    /\ namespace = "kube-system"
    /\ resource = NoResource
    /\ deleteCalls = << >>
    /\ saved = NotSaved
    /\ called = {}
    /\ nsChoice = NoChoice
    /\ cluster = NoCluster
    /\ relationships = NotRelated

(***************************************************************************)
(* refreshData.  The foreground loop sets the flag and the counter, draws  *)
(* the loading screen (terminal I/O, during which the consumer goroutine   *)
(* may run), then clears the collections and starts the four goroutines.   *)
(***************************************************************************)
\* results not yet consumed: goroutines still running and updates in dataChan
Outstanding == Cardinality(workers) + Len(dataChan)

RefreshBegin(maxCycles, maxStale) ==
    /\ fgPc \in {"start", "idle"}
    /\ cycle < maxCycles
    /\ Outstanding <= maxStale
    /\ loading' = TRUE
    /\ loadingCounter' = NumResourceTypes
    /\ fgPc' = "refresh"
    /\ cycle' = cycle + 1
    /\ handled' = 0
    /\ overlapped' = (workers # {} \/ dataChan # << >>)
    /\ fetched' = [k \in ResourceTypes |-> NoResult]
    /\ UNCHANGED <<collVars, viewVars, dataChan, workers, creates, posted,
                   modeVars, pureVars, mutVars>>

\* the goroutines refreshData starts, in the cycle numbered c
Launched(c) == { [ResourceType |-> k, cycle |-> c] : k \in ResourceTypes }

\* a refreshData that starts the goroutines without clearing t.configMaps
RefreshLaunchKeepingConfigMaps ==
    /\ fgPc = "refresh"
    /\ pods' = Nil
    /\ deployments' = Nil
    /\ services' = Nil
    /\ workers' = workers \cup Launched(cycle)
    /\ posted' = [w \in DOMAIN posted \cup Launched(cycle) |->
                    IF w \in DOMAIN posted THEN posted[w] ELSE 0]
    /\ fgPc' = "idle"
    /\ UNCHANGED <<configMaps, viewVars, loading, loadingCounter, dataChan,
                   cycle, creates, handled, overlapped, fetched,
                   modeVars, pureVars, mutVars>>

RefreshLaunch ==
    /\ fgPc = "refresh"
    /\ pods' = Nil
    /\ deployments' = Nil
    /\ services' = Nil
    /\ configMaps' = Nil
    /\ workers' = workers \cup Launched(cycle)
    /\ posted' = [w \in DOMAIN posted \cup Launched(cycle) |->
                    IF w \in DOMAIN posted THEN posted[w] ELSE 0]
    /\ fgPc' = "idle"
    /\ UNCHANGED <<viewVars, loading, loadingCounter, dataChan,
                   cycle, creates, handled, overlapped, fetched,
                   modeVars, pureVars, mutVars>>

(***************************************************************************)
(* The gateway: k8s.ListPods and its siblings return (items, nil) or       *)
(* (nil, err).                                                             *)
(***************************************************************************)
GatewayError == [Error |-> TRUE, Data |-> Nil]

ListResults(lists) == { [Error |-> FALSE, Data |-> l] : l \in lists } \cup {GatewayError}

\* the gateway of Spec, of SpecView and of SpecQueue
OneListGateway == [k \in ResourceTypes |-> ListResults({KindList(k)})]
AnyListGateway == [k \in ResourceTypes |-> ListResults(ListResponses)]
FailingGateway == [k \in ResourceTypes |-> {GatewayError}]
\* the gateway of SpecCreate: the pod list is shorter than the other lists,
\* and has one pod or two
UnevenGateway ==
    [k \in ResourceTypes |->
        IF k = ResourcePods
        THEN ListResults({<<NameAB>>, <<NameA, NameB>>})
        ELSE ListResults({<<NameA, NameB, NameAB>>})]
\* the gateway of SpecMutate: every list call succeeds
SucceedingGateway == [k \in ResourceTypes |-> ListResults({KindList(k)}) \ {GatewayError}]

(***************************************************************************)
(* loadPodsAsync, loadDeploymentsAsync, loadServicesAsync and              *)
(* loadConfigMapsAsync: the updates one goroutine sends on dataChan, given *)
(* what its list call returned.                                            *)
(***************************************************************************)
\* a goroutine that returns without sending when its list call failed
AsyncUpdatesUnlessError(k, res) ==
    IF res.Error
    THEN << >>
    ELSE << [ResourceType |-> k, Data |-> res.Data, Error |-> res.Error] >>

AsyncUpdates(k, res) ==
    << [ResourceType |-> k, Data |-> res.Data, Error |-> res.Error] >>

Tagged(updates, c) ==
    [i \in 1 .. Len(updates) |->
        [ResourceType |-> updates[i].ResourceType, Data |-> updates[i].Data,
         Error |-> updates[i].Error, cycle |-> c]]

\* the goroutines of the earliest cycle that still has goroutines running
Oldest(ws) == { w \in ws : \A v \in ws : w.cycle <= v.cycle }

\* the number of updates in a sequence that carry the tag of goroutine w
CountFor(updates, w) ==
    Cardinality({ i \in 1 .. Len(updates) :
                    /\ updates[i].ResourceType = w.ResourceType
                    /\ updates[i].cycle = w.cycle })

WorkerSend(ready, gateway) ==
    \E w \in ready :
      \E res \in gateway[w.ResourceType] :
        LET updates == Tagged(AsyncUpdates(w.ResourceType, res), w.cycle)
        IN  /\ Len(dataChan) + Len(updates) <= DataChanCap
            /\ dataChan' = dataChan \o updates
            /\ workers' = workers \ {w}
            /\ posted' = [v \in DOMAIN posted |-> posted[v] + CountFor(updates, v)]
            /\ UNCHANGED <<collVars, viewVars, loading, loadingCounter, fgPc,
                           cycle, creates, handled, overlapped, fetched,
                           modeVars, pureVars, mutVars>>

(***************************************************************************)
(* handleDataUpdates / handleDataUpdate: the consumer goroutine takes the  *)
(* oldest update from dataChan and applies it.                             *)
(***************************************************************************)
\* the switch on update.ResourceType: the value assigned to the collection
AppliedData(update) == update.Data

\* a consumer that returns after logging the error, before the decrement
DecrementedUnlessError(counter, update) ==
    IF update.Error THEN counter ELSE counter - 1

\* a consumer that drops the results of superseded cycles
DecrementedUnlessStale(counter, update) ==
    IF update.cycle < cycle THEN counter ELSE counter - 1

\* t.loadingCounter--
Decremented(counter, update) == counter - 1

\* a consumer that returns at the first failed result
HandleDataUpdateUntilError ==
    /\ dataChan # << >>
    /\ ~Head(dataChan).Error
    /\ LET update == Head(dataChan)
           k == update.ResourceType
           data == AppliedData(update)
           counter == Decremented(loadingCounter, update)
           maxItems == IF currentView = k THEN Len(data) ELSE Len(Collection(currentView))
       IN  /\ dataChan' = Tail(dataChan)
           /\ SetCollection(k, data)
           /\ loadingCounter' = counter
           /\ IF counter <= 0
              THEN /\ loading' = FALSE
                   /\ selected' = adjustSelection(selected, maxItems)
              ELSE UNCHANGED <<loading, selected>>
           /\ handled' = IF update.cycle = cycle THEN handled + 1 ELSE handled
           /\ fetched' = IF update.cycle = cycle
                         THEN [fetched EXCEPT ![k] =
                                 [Error |-> update.Error, Data |-> update.Data,
                                  seen |-> TRUE]]
                         ELSE fetched
    /\ UNCHANGED <<filter, currentView, workers, fgPc, cycle, creates, posted,
                   overlapped, modeVars, pureVars, mutVars>>

\* a consumer that adjusts the selection after every update
HandleDataUpdateAdjustingEach ==
    /\ dataChan # << >>
    /\ LET update == Head(dataChan)
           k == update.ResourceType
           data == AppliedData(update)
           counter == Decremented(loadingCounter, update)
           maxItems == IF currentView = k THEN Len(data) ELSE Len(Collection(currentView))
       IN  /\ dataChan' = Tail(dataChan)
           /\ SetCollection(k, data)
           /\ loadingCounter' = counter
           /\ selected' = adjustSelection(selected, maxItems)
           /\ loading' = IF counter <= 0 THEN FALSE ELSE loading
           /\ handled' = IF update.cycle = cycle THEN handled + 1 ELSE handled
           /\ fetched' = IF update.cycle = cycle
                         THEN [fetched EXCEPT ![k] =
                                 [Error |-> update.Error, Data |-> update.Data,
                                  seen |-> TRUE]]
                         ELSE fetched
    /\ UNCHANGED <<filter, currentView, workers, fgPc, cycle, creates, posted,
                   overlapped, modeVars, pureVars, mutVars>>

HandleDataUpdate ==
    /\ dataChan # << >>
    /\ LET update == Head(dataChan)
           k == update.ResourceType
           data == AppliedData(update)
           counter == Decremented(loadingCounter, update)
           maxItems == IF currentView = k THEN Len(data) ELSE Len(Collection(currentView))
       IN  /\ dataChan' = Tail(dataChan)
           /\ SetCollection(k, data)
           /\ loadingCounter' = counter
           /\ IF counter <= 0
              THEN /\ loading' = FALSE
                   /\ selected' = adjustSelection(selected, maxItems)
              ELSE UNCHANGED <<loading, selected>>
           /\ handled' = IF update.cycle = cycle THEN handled + 1 ELSE handled
           /\ fetched' = IF update.cycle = cycle
                         THEN [fetched EXCEPT ![k] =
                                 [Error |-> update.Error, Data |-> update.Data,
                                  seen |-> TRUE]]
                         ELSE fetched
    /\ UNCHANGED <<filter, currentView, workers, fgPc, cycle, creates, posted,
                   overlapped, modeVars, pureVars, mutVars>>

(***************************************************************************)
(* Key handling of the foreground loop (Run).                              *)
(***************************************************************************)
\* the frame of a key handler that writes t.selected and one more field of
\* the view at most
KeyFrame ==
    UNCHANGED <<collVars, loading, loadingCounter, dataChan, workers, fgPc,
                histVars, viewMode, showHelp, pureVars, mutVars>>

\* a moveSelection that clamps against the whole collection
moveSelectionUnfiltered(delta) ==
    /\ fgPc = "idle" /\ ~showHelp
    /\ LET n == Len(Collection(currentView))
       IN  selected' = IF n = 0 THEN selected ELSE movedSelection(selected, delta, n)
    /\ UNCHANGED <<filter, currentView>>
    /\ KeyFrame

\* t.moveSelection(delta)
moveSelection(delta) ==
    /\ fgPc = "idle" /\ ~showHelp
    /\ LET n == Len(getFilteredResources)
       IN  selected' = IF n = 0 THEN selected ELSE movedSelection(selected, delta, n)
    /\ UNCHANGED <<filter, currentView>>
    /\ KeyFrame

\* a kind switch that keeps the selection
switchKindKeepingSelection(k) ==
    /\ fgPc = "idle" /\ ~showHelp
    /\ currentView' = k
    /\ UNCHANGED <<filter, selected>>
    /\ KeyFrame

\* t.currentView = k; t.selected = 0
switchKind(k) ==
    /\ fgPc = "idle" /\ ~showHelp
    /\ currentView' = k
    /\ selected' = 0
    /\ UNCHANGED filter
    /\ KeyFrame

\* a filter change that keeps the selection
setFilterKeepingSelection(input) ==
    /\ fgPc = "idle" /\ ~showHelp
    /\ filter' = input
    /\ UNCHANGED <<currentView, selected>>
    /\ KeyFrame

\* t.filter = input; t.selected = 0
setFilter(input) ==
    /\ fgPc = "idle" /\ ~showHelp
    /\ filter' = input
    /\ selected' = 0
    /\ UNCHANGED currentView
    /\ KeyFrame

\* SpecView: the keys, handled without a trace in lastKey
MoveSelection(delta) == moveSelection(delta) /\ lastKey' = NoKey

KeyTab == switchKind((currentView + 1) % 4) /\ lastKey' = NoKey

KeyKind(k) == switchKind(k) /\ lastKey' = NoKey

\* searchDialog left with Enter on the typed text
SearchDialog(input) == setFilter(input) /\ lastKey' = NoKey

ClearFilter == setFilter(<< >>) /\ lastKey' = NoKey

\* SpecKeys: the same keys, each leaving its trace in lastKey
PressArrow(delta) ==
    moveSelection(delta) /\ lastKey' = Pressed(IF delta = 1 THEN "right" ELSE "left")

PressTab == switchKind((currentView + 1) % 4) /\ lastKey' = Pressed("tab")

\* the keys '1' to '4'
KindKey(k) == <<"1", "2", "3", "4">>[k + 1]

PressKind(k) == switchKind(k) /\ lastKey' = Pressed(KindKey(k))

PressSearch(input) == setFilter(input) /\ lastKey' = Pressed("search")

\* searchDialog left with Escape
PressSearchCancel ==
    /\ fgPc = "idle" /\ ~showHelp
    /\ lastKey' = Pressed("cancel")
    /\ UNCHANGED <<viewVars>>
    /\ KeyFrame

PressClear == setFilter(<< >>) /\ lastKey' = Pressed("clear")

(***************************************************************************)
(* View-mode keys of the foreground loop.  While the help screen is shown  *)
(* any key only closes it.                                                 *)
(***************************************************************************)
nextViewMode(mode, kind) ==
    CASE mode = ViewModeList -> ViewModeDetails
      [] mode = ViewModeDetails -> ViewModeYAML
      [] mode = ViewModeYAML ->
            IF kind = ResourcePods THEN ViewModeLogs ELSE ViewModeList
      [] mode = ViewModeLogs -> ViewModeRelationships
      [] mode = ViewModeRelationships -> ViewModeList

\* key 'v'
KeyV ==
    /\ fgPc = "idle" /\ ~showHelp
    /\ viewMode' = nextViewMode(viewMode, currentView)
    /\ lastKey' = Pressed("v")
    /\ UNCHANGED <<collVars, viewVars, loading, loadingCounter, dataChan,
                   workers, fgPc, histVars, showHelp, pureVars, mutVars>>

KeyEnter ==
    /\ fgPc = "idle" /\ ~showHelp
    /\ viewMode' = IF viewMode = ViewModeList THEN ViewModeDetails ELSE viewMode
    /\ lastKey' = Pressed("enter")
    /\ UNCHANGED <<collVars, viewVars, loading, loadingCounter, dataChan,
                   workers, fgPc, histVars, showHelp, pureVars, mutVars>>

\* key 'y'
KeyY ==
    /\ fgPc = "idle" /\ ~showHelp
    /\ viewMode' = IF viewMode = ViewModeDetails THEN ViewModeYAML ELSE viewMode
    /\ lastKey' = Pressed("y")
    /\ UNCHANGED <<collVars, viewVars, loading, loadingCounter, dataChan,
                   workers, fgPc, histVars, showHelp, pureVars, mutVars>>

\* a 'j' handler that does not test the current kind
KeyJAnyKind ==
    /\ fgPc = "idle" /\ ~showHelp
    /\ viewMode' = IF viewMode = ViewModeDetails THEN ViewModeLogs ELSE viewMode
    /\ lastKey' = Pressed("j")
    /\ UNCHANGED <<collVars, viewVars, loading, loadingCounter, dataChan,
                   workers, fgPc, histVars, showHelp, pureVars, mutVars>>

\* key 'j'
KeyJ ==
    /\ fgPc = "idle" /\ ~showHelp
    /\ viewMode' = IF viewMode = ViewModeDetails /\ currentView = ResourcePods
                   THEN ViewModeLogs
                   ELSE viewMode
    /\ lastKey' = Pressed("j")
    /\ UNCHANGED <<collVars, viewVars, loading, loadingCounter, dataChan,
                   workers, fgPc, histVars, showHelp, pureVars, mutVars>>

\* an Escape handler without the view-mode test: Escape always returns
KeyEscapeQuits ==
    /\ fgPc = "idle"
    /\ lastKey' = Pressed("esc")
    /\ IF showHelp
       THEN showHelp' = FALSE /\ UNCHANGED <<viewMode, fgPc>>
       ELSE fgPc' = "done" /\ UNCHANGED <<viewMode, showHelp>>
    /\ UNCHANGED <<collVars, viewVars, loading, loadingCounter, dataChan,
                   workers, histVars, pureVars, mutVars>>

\* tcell.KeyEscape: closes the help screen, else leaves a non-List view
\* mode, else ends Run
KeyEscape ==
    /\ fgPc = "idle"
    /\ lastKey' = Pressed("esc")
    /\ IF showHelp
       THEN showHelp' = FALSE /\ UNCHANGED <<viewMode, fgPc>>
       ELSE IF viewMode # ViewModeList
            THEN viewMode' = ViewModeList /\ UNCHANGED <<showHelp, fgPc>>
            ELSE fgPc' = "done" /\ UNCHANGED <<viewMode, showHelp>>
    /\ UNCHANGED <<collVars, viewVars, loading, loadingCounter, dataChan,
                   workers, histVars, pureVars, mutVars>>

\* keys 'h' and '?'
KeyHelp ==
    /\ fgPc = "idle" /\ ~showHelp
    /\ showHelp' = TRUE
    /\ lastKey' = NoKey
    /\ UNCHANGED <<collVars, viewVars, loading, loadingCounter, dataChan,
                   workers, fgPc, histVars, viewMode, pureVars, mutVars>>

\* any key other than Escape while the help screen is shown
DismissHelp ==
    /\ fgPc = "idle" /\ showHelp
    /\ showHelp' = FALSE
    /\ lastKey' = NoKey
    /\ UNCHANGED <<collVars, viewVars, loading, loadingCounter, dataChan,
                   workers, fgPc, histVars, viewMode, pureVars, mutVars>>

(***************************************************************************)
(* createPod: sets loading, draws, calls the gateway (the foreground loop  *)
(* waits for the answer), clears loading and, on success, calls loadPods.  *)
(***************************************************************************)
CreatePodBegin ==
    /\ fgPc = "idle" /\ ~showHelp
    /\ creates < MaxCreate
    /\ loading' = TRUE
    /\ fgPc' = "create"
    /\ creates' = creates + 1
    /\ saved' = [set |-> TRUE, loading |-> loading,
                 loadingCounter |-> loadingCounter]
    /\ UNCHANGED <<collVars, viewVars, loadingCounter, dataChan, workers,
                   cycle, posted, handled, overlapped, fetched,
                   modeVars, pureVars, namespace, resource, deleteCalls, nsVars>>

CreatePodFinish(gateway) ==
    /\ fgPc = "create"
    /\ loading' = FALSE
    /\ fgPc' = "idle"
    /\ \E createErr \in BOOLEAN, res \in gateway[ResourcePods] :
          IF createErr \/ res.Error
          THEN UNCHANGED <<pods, selected>>
          ELSE /\ pods' = res.Data
               /\ selected' = adjustSelection(selected, Len(res.Data))
    /\ saved' = NotSaved
    /\ UNCHANGED <<deployments, services, configMaps, filter, currentView,
                   loadingCounter, dataChan, workers, histVars,
                   modeVars, pureVars, namespace, resource, deleteCalls, nsVars>>

\* The values a slice variable can hold after two unsynchronised assignments
\* of the slices a and b: a slice is three words (pointer, length, capacity)
\* written one by one, so besides a and b the variable can hold the pointer
\* of one with the length of the other. Where that length exceeds what the
\* pointer addresses the slice has no value as a list, and is left out.
TornSlices(a, b) ==
    {a, b}
      \cup (IF Len(b) < Len(a) THEN {SubSeq(a, 1, Len(b))} ELSE {})
      \cup (IF Len(a) < Len(b) THEN {SubSeq(b, 1, Len(a))} ELSE {})

\* loadPods, called by createPod on the foreground goroutine, assigns t.pods
\* while the consumer goroutine assigns t.pods in handleDataUpdate: the two
\* handlers run to their ends over the one variable
CreatePodFinishRacing(gateway) ==
    /\ fgPc = "create"
    /\ dataChan # << >>
    /\ Head(dataChan).ResourceType = ResourcePods
    /\ \E res \in gateway[ResourcePods] :
          LET update == Head(dataChan)
              counter == Decremented(loadingCounter, update)
          IN  /\ ~res.Error
              /\ pods' \in TornSlices(res.Data, AppliedData(update))
              /\ UNCHANGED <<deployments, services, configMaps>>
              /\ selected' =
                    LET loaded == adjustSelection(selected, Len(pods'))
                    IN  IF counter <= 0
                        THEN adjustSelection(loaded,
                                 IF currentView = ResourcePods
                                 THEN Len(pods')
                                 ELSE Len(Collection(currentView)))
                        ELSE loaded
              /\ loading' = FALSE
              /\ loadingCounter' = counter
              /\ dataChan' = Tail(dataChan)
              /\ handled' = IF update.cycle = cycle THEN handled + 1 ELSE handled
              /\ fetched' = IF update.cycle = cycle
                            THEN [fetched EXCEPT ![ResourcePods] =
                                    [Error |-> update.Error, Data |-> update.Data,
                                     seen |-> TRUE]]
                            ELSE fetched
    /\ fgPc' = "idle"
    /\ saved' = NotSaved
    /\ UNCHANGED <<filter, currentView, workers, cycle, creates, posted,
                   overlapped, modeVars, pureVars, namespace, resource,
                   deleteCalls, nsVars>>

(***************************************************************************)
(* Namespaces. The list goroutines read t.namespace when they make their   *)
(* list call, which is some time after refreshData started them; the       *)
(* gateway answers with the resources of the namespace it was asked for.   *)
(***************************************************************************)
Namespaces == {"kube-system", "default"}

\* the list of a kind in a namespace
NsList(ns, k) == IF ns = "kube-system" THEN KindList(k) ELSE <<NameAB, NameB>>

\* the gateway, asked for the namespace ns
NsGateway(ns) == [k \in ResourceTypes |-> ListResults({NsList(ns, k)})]

\* the goroutine w has made its list call
HasCalled(w) == \E c \in called : c.worker = w

\* k8s.ListPods(t.clientset, t.namespace) and its siblings: the call is made
WorkerCall ==
    /\ \E w \in workers :
          /\ ~HasCalled(w)
          /\ called' = called \cup {[worker |-> w, ns |-> namespace]}
    /\ UNCHANGED <<collVars, viewVars, loading, loadingCounter, dataChan,
                   workers, fgPc, histVars, modeVars, pureVars, namespace,
                   resource, deleteCalls, saved, nsChoice>>

\* the call returns what the namespace it was made for holds, and the
\* goroutine sends
WorkerReturn ==
    \E c \in called :
        /\ c.worker \in workers
        /\ WorkerSend({c.worker}, NsGateway(c.ns))

\* changeNamespace: k8s.ListNamespaces is called on the foreground goroutine
ChangeNamespaceBegin(maxCycles, maxStale) ==
    /\ fgPc = "idle" /\ ~showHelp
    /\ cycle < maxCycles
    /\ Outstanding <= maxStale
    /\ fgPc' = "namespaces"
    /\ UNCHANGED <<collVars, viewVars, loading, loadingCounter, dataChan,
                   workers, histVars, modeVars, pureVars, mutVars>>

\* ListNamespaces returns: the dialog opens, or on an error or an empty list
\* a message is shown until a key is pressed
ChangeNamespaceListed(ok) ==
    /\ fgPc = "namespaces"
    /\ fgPc' = IF ok THEN "nsdialog" ELSE "idle"
    /\ UNCHANGED <<collVars, viewVars, loading, loadingCounter, dataChan,
                   workers, histVars, modeVars, pureVars, mutVars>>

\* a dialog that refreshes on Enter whatever namespace is chosen
ChangeNamespaceEnterAlways(newNamespace) ==
    /\ fgPc = "nsdialog"
    /\ nsChoice' = [key |-> "enter", name |-> newNamespace]
    /\ namespace' = newNamespace
    /\ loading' = TRUE
    /\ loadingCounter' = NumResourceTypes
    /\ fgPc' = "refresh"
    /\ cycle' = cycle + 1
    /\ handled' = 0
    /\ overlapped' = (workers # {} \/ dataChan # << >>)
    /\ fetched' = [k \in ResourceTypes |-> NoResult]
    /\ UNCHANGED <<collVars, viewVars, dataChan, workers, creates, posted,
                   modeVars, pureVars, resource, deleteCalls, saved, called>>

\* Enter in the dialog, on the namespace newNamespace
ChangeNamespaceEnter(newNamespace) ==
    /\ fgPc = "nsdialog"
    /\ nsChoice' = [key |-> "enter", name |-> newNamespace]
    /\ IF newNamespace # namespace
       THEN /\ namespace' = newNamespace
            /\ loading' = TRUE
            /\ loadingCounter' = NumResourceTypes
            /\ fgPc' = "refresh"
            /\ cycle' = cycle + 1
            /\ handled' = 0
            /\ overlapped' = (workers # {} \/ dataChan # << >>)
            /\ fetched' = [k \in ResourceTypes |-> NoResult]
       ELSE /\ fgPc' = "idle"
            /\ UNCHANGED <<namespace, loading, loadingCounter, cycle, handled,
                           overlapped, fetched>>
    /\ UNCHANGED <<collVars, viewVars, dataChan, workers, creates, posted,
                   modeVars, pureVars, resource, deleteCalls, saved, called>>

\* Escape in the dialog
ChangeNamespaceEscape ==
    /\ fgPc = "nsdialog"
    /\ nsChoice' = [key |-> "esc", name |-> ""]
    /\ fgPc' = "idle"
    /\ UNCHANGED <<collVars, viewVars, loading, loadingCounter, dataChan,
                   workers, histVars, modeVars, pureVars, namespace,
                   resource, deleteCalls, saved, called>>

(***************************************************************************)
(* deleteSelectedResource: takes the selected resource, shows the prompt   *)
(* and polls one event; on 'y' it calls the gateway (the foreground loop   *)
(* waits for the answer) and, when the call succeeded, calls refreshData.  *)
(***************************************************************************)
\* t.getSelectedResource() in the current state, with the kind its type tells
getSelectedResource ==
    IF selected < 0 \/ selected >= Len(getFilteredResources)
    THEN NoResource
    ELSE [kind |-> currentView, name |-> getFilteredResources[selected + 1]]

\* key 'd' on a selected resource: the prompt is on the screen
DeletePrompt(maxCycles, maxStale) ==
    /\ fgPc = "idle" /\ ~showHelp
    /\ Len(deleteCalls) < MaxDelete
    /\ cycle < maxCycles
    /\ Outstanding <= maxStale
    /\ getSelectedResource # NoResource
    /\ resource' = getSelectedResource
    /\ fgPc' = "confirm"
    /\ lastKey' = Pressed("d")
    /\ UNCHANGED <<collVars, viewVars, loading, loadingCounter, dataChan,
                   workers, histVars, viewMode, showHelp, pureVars,
                   namespace, deleteCalls, saved, nsVars>>

\* the call k8s.DeletePod and its siblings receive
DeleteCall == [kind |-> resource.kind, name |-> resource.name,
               namespace |-> namespace]

\* a prompt that any key confirms
DeleteAnswerAnyKey(answer) ==
    /\ fgPc = "confirm"
    /\ lastKey' = Pressed(answer)
    /\ deleteCalls' = Append(deleteCalls, DeleteCall)
    /\ fgPc' = "delete"
    /\ UNCHANGED resource
    /\ UNCHANGED <<collVars, viewVars, loading, loadingCounter, dataChan,
                   workers, histVars, viewMode, showHelp, pureVars,
                   namespace, saved, nsVars>>

\* the event polled while the prompt is shown
DeleteAnswer(answer) ==
    /\ fgPc = "confirm"
    /\ lastKey' = Pressed(answer)
    /\ IF answer = "y"
       THEN /\ deleteCalls' = Append(deleteCalls, DeleteCall)
            /\ fgPc' = "delete"
            /\ UNCHANGED resource
       ELSE /\ fgPc' = "idle"
            /\ resource' = NoResource
            /\ UNCHANGED deleteCalls
    /\ UNCHANGED <<collVars, viewVars, loading, loadingCounter, dataChan,
                   workers, histVars, viewMode, showHelp, pureVars,
                   namespace, saved, nsVars>>

\* the delete call returns: an error is shown, a success calls refreshData
DeleteReturn(err) ==
    /\ fgPc = "delete"
    /\ resource' = NoResource
    /\ IF err
       THEN /\ fgPc' = "idle"
            /\ UNCHANGED <<loading, loadingCounter, cycle, handled, overlapped,
                           fetched>>
       ELSE /\ loading' = TRUE
            /\ loadingCounter' = NumResourceTypes
            /\ fgPc' = "refresh"
            /\ cycle' = cycle + 1
            /\ handled' = 0
            /\ overlapped' = (workers # {} \/ dataChan # << >>)
            /\ fetched' = [k \in ResourceTypes |-> NoResult]
    /\ UNCHANGED <<collVars, viewVars, dataChan, workers, creates, posted,
                   modeVars, pureVars, namespace, deleteCalls, saved, nsVars>>

(***************************************************************************)
(* Spec: the refresh engine.  Refreshes may overlap; the only key pressed  *)
(* is the refresh key.                                                     *)
(***************************************************************************)
Next ==
    \/ RefreshBegin(MaxRefresh, MaxStale)
    \/ RefreshLaunch
    \/ WorkerSend(workers, OneListGateway)
    \/ HandleDataUpdate

Spec == Init /\ [][Next]_vars

(***************************************************************************)
(* SpecLive: the refresh engine under fair scheduling. refreshData, once   *)
(* begun, goes on to start its goroutines; every goroutine's list call     *)
(* returns and the goroutine sends; the consumer goroutine keeps receiving.*)
(* Nothing obliges the user to refresh.                                    *)
(***************************************************************************)
SpecLive ==
    /\ Init /\ [][Next]_vars
    /\ WF_vars(RefreshLaunch)
    /\ WF_vars(WorkerSend(workers, OneListGateway))
    /\ WF_vars(HandleDataUpdate)

(***************************************************************************)
(* SpecView: the foreground operations (moving the selection, switching    *)
(* the kind, setting the filter, creating a pod) while a refresh cycle is  *)
(* in progress and between refresh cycles that do not overlap.             *)
(***************************************************************************)
NextView ==
    \/ RefreshBegin(MaxRefreshV, 0)
    \/ RefreshLaunch
    \/ WorkerSend(workers, AnyListGateway)
    \/ HandleDataUpdate
    \/ \E delta \in {-1, 1} : MoveSelection(delta)
    \/ KeyTab
    \/ \E k \in ResourceTypes : KeyKind(k)
    \/ \E input \in FilterTexts : SearchDialog(input)
    \/ ClearFilter
    \/ CreatePodBegin
    \/ CreatePodFinish(AnyListGateway)

SpecView == Init /\ [][NextView]_vars

(***************************************************************************)
(* SpecQueue: refreshes started over any number of unconsumed results.    *)
(* Every list call fails, and the gateway answers the calls of an earlier  *)
(* cycle before those of a later one (in any order within a cycle).        *)
(***************************************************************************)
NextQueue ==
    \/ RefreshBegin(MaxRefreshQ, NumResourceTypes * MaxRefreshQ)
    \/ RefreshLaunch
    \/ WorkerSend(Oldest(workers), FailingGateway)
    \/ HandleDataUpdate

SpecQueue == Init /\ [][NextQueue]_vars

(***************************************************************************)
(* SpecMutate: deleting the selected resource while refresh cycles run.    *)
(* The delete key is pressed over at most MaxStale unconsumed results; a   *)
(* successful delete starts a refresh cycle of its own.                    *)
(***************************************************************************)
NextMutate ==
    \/ RefreshBegin(MaxRefreshM, 0)
    \/ RefreshLaunch
    \/ WorkerSend(workers, SucceedingGateway)
    \/ HandleDataUpdate
    \/ \E delta \in {-1, 1} : MoveSelection(delta)
    \/ \E k \in ResourceTypes : KeyKind(k)
    \/ DeletePrompt(MaxRefreshM + MaxDelete, MaxStale)
    \/ \E answer \in {"y", "n"} : DeleteAnswer(answer)
    \/ \E err \in BOOLEAN : DeleteReturn(err)

SpecMutate == Init /\ [][NextMutate]_vars

(***************************************************************************)
(* SpecOrder: refresh cycles whose results arrive and are consumed in      *)
(* every order. A cycle starts when the previous one is consumed, and the  *)
(* user moves the selection and switches the kind between the cycles.      *)
(***************************************************************************)
NextOrder ==
    \/ RefreshBegin(MaxRefreshO, 0)
    \/ RefreshLaunch
    \/ WorkerSend(workers, OneListGateway)
    \/ HandleDataUpdate
    \/ \E delta \in {-1, 1} : Outstanding = 0 /\ MoveSelection(delta)
    \/ \E k \in ResourceTypes : Outstanding = 0 /\ KeyKind(k)

SpecOrder == Init /\ [][NextOrder]_vars

(***************************************************************************)
(* SpecCreate: creating a pod during and after a refresh cycle, with the   *)
(* selection anywhere in any kind's list.                                  *)
(***************************************************************************)
NextCreate ==
    \/ RefreshBegin(MaxRefreshC, 0)
    \/ RefreshLaunch
    \/ WorkerSend(workers, UnevenGateway)
    \/ HandleDataUpdate
    \/ \E delta \in {-1, 1} : MoveSelection(delta)
    \/ \E k \in ResourceTypes : KeyKind(k)
    \/ CreatePodBegin
    \/ CreatePodFinish(UnevenGateway)
    \/ CreatePodFinishRacing(UnevenGateway)

SpecCreate == Init /\ [][NextCreate]_vars

(***************************************************************************)
(* SpecNs: switching the namespace during and after a refresh cycle. The   *)
(* dialog is opened over at most MaxStale unconsumed results.              *)
(***************************************************************************)
NextNs ==
    \/ RefreshBegin(MaxRefreshN, 0)
    \/ RefreshLaunch
    \/ WorkerCall
    \/ WorkerReturn
    \/ HandleDataUpdate
    \/ ChangeNamespaceBegin(MaxRefreshN + MaxSwitch, MaxStale)
    \/ \E ok \in BOOLEAN : ChangeNamespaceListed(ok)
    \/ \E newNamespace \in Namespaces : ChangeNamespaceEnter(newNamespace)
    \/ ChangeNamespaceEscape

SpecNs == Init /\ [][NextNs]_vars

(***************************************************************************)
(* SpecKeys: the key handling of the foreground loop over collections that *)
(* stay as the initial refresh of Run left them.                           *)
(***************************************************************************)
InitKeys ==
    \E res \in [ResourceTypes -> UNION { AnyListGateway[k] : k \in ResourceTypes }] :
        /\ pods = res[ResourcePods].Data
        /\ deployments = res[ResourceDeployments].Data
        /\ services = res[ResourceServices].Data
        /\ configMaps = res[ResourceConfigMaps].Data
        /\ selected = 0
        /\ filter = << >>
        /\ currentView = ResourcePods
        /\ loading = FALSE
        /\ loadingCounter = 0
        /\ dataChan = << >>
        /\ workers = {}
        /\ fgPc = "idle"
        /\ cycle = 1
        /\ creates = 0
        /\ posted = [w \in Launched(1) |-> 1]
        /\ handled = NumResourceTypes
        /\ overlapped = FALSE
        /\ fetched = [k \in ResourceTypes |->
                        [Error |-> res[k].Error, Data |-> res[k].Data, seen |-> TRUE]]
        /\ viewMode = ViewModeList
        /\ showHelp = FALSE
        /\ lastKey = NoKey
        /\ filterFlags = NoFlags
        /\ shown = Nil
        /\ passes = 0
        /\ namespace = "kube-system"
        /\ resource = NoResource
        /\ deleteCalls = << >>
        /\ saved = NotSaved
        /\ called = {}
        /\ nsChoice = NoChoice
        /\ cluster = NoCluster
        /\ relationships = NotRelated

NextKeys ==
    \/ \E delta \in {-1, 1} : PressArrow(delta)
    \/ PressTab
    \/ \E k \in ResourceTypes : PressKind(k)
    \/ \E input \in FilterTexts : PressSearch(input)
    \/ PressSearchCancel
    \/ PressClear
    \/ KeyV
    \/ KeyEnter
    \/ KeyY
    \/ KeyJ
    \/ KeyEscape
    \/ KeyHelp
    \/ DismissHelp

SpecKeys == InitKeys /\ [][NextKeys]_vars

(***************************************************************************)
(* SpecRel: getResourceRelationships as a function of the loaded pods,     *)
(* services and deployments. A pod has a name, labels and owner            *)
(* references; a service a name and a selector; a deployment a name. Label *)
(* values may be the empty string. No config map is loaded, so no "uses"   *)
(* edge is derived.                                                        *)
(***************************************************************************)
LabelKeys == {"app", "tier"}
LabelValues == {"", "web"}
\* map[string]string over the label keys
LabelMaps == UNION { [S -> LabelValues] : S \in SUBSET LabelKeys }
\* pod.OwnerReferences
OwnerLists ==
    { << >>,
      << [Kind |-> "Deployment", Name |-> NameA] >>,
      << [Kind |-> "ReplicaSet", Name |-> NameA] >> }
\* the names of the pods of one namespace differ
PodNames == <<NameA, NameB, NameAB, <<"B", "a">> >>

PodLists(n) ==
    { [i \in 1 .. n |-> [Name |-> PodNames[i], Labels |-> labels[i],
                         OwnerReferences |-> owners[i]]] :
        labels \in [1 .. n -> LabelMaps], owners \in [1 .. n -> OwnerLists] }

Clusters ==
    { [pods |-> ps, services |-> << [Name |-> NameA, Selector |-> sel] >>,
       deployments |-> ds] :
        ps \in UNION { PodLists(n) : n \in 1 .. MaxPods },
        sel \in LabelMaps,
        ds \in { << >>, << [Name |-> NameA] >> } }

\* pod.Labels[key]: the zero value "" when the map has no such key
LabelOf(labels, key) == IF key \in DOMAIN labels THEN labels[key] ELSE ""

\* podMatchesService
podMatchesService(pod, svc) ==
    \A key \in DOMAIN svc.Selector : LabelOf(pod.Labels, key) = svc.Selector[key]

Relationship(from, to, type) == [From |-> from, To |-> to, RelationType |-> type]

\* append(relationships, more...) over a sequence of slices
RECURSIVE Concat(_)
Concat(slices) ==
    IF slices = << >> THEN << >> ELSE Head(slices) \o Concat(Tail(slices))

\* the elements of s for which keep[i] holds, mapped by edge[i]
Edges(n, keep, edge) ==
    Concat([i \in 1 .. n |-> IF keep[i] THEN <<edge[i]>> ELSE << >>])

\* getPodRelationships
getPodRelationships(c) ==
    Concat([i \in 1 .. Len(c.pods) |->
        LET pod == c.pods[i]
            owners == pod.OwnerReferences
        IN  Edges(Len(owners),
                  [o \in 1 .. Len(owners) |-> owners[o].Kind = "Deployment"],
                  [o \in 1 .. Len(owners) |->
                      Relationship(pod.Name, owners[o].Name, "owned-by")])
            \o
            Edges(Len(c.services),
                  [j \in 1 .. Len(c.services) |-> podMatchesService(pod, c.services[j])],
                  [j \in 1 .. Len(c.services) |->
                      Relationship(pod.Name, c.services[j].Name, "exposed-by")])])

\* the edges "owns" of one deployment and one pod
OwnsEdgesAnyKind(dep, pod) ==
    LET owners == pod.OwnerReferences
    IN  Edges(Len(owners),
              [o \in 1 .. Len(owners) |-> owners[o].Name = dep.Name],
              [o \in 1 .. Len(owners) |-> Relationship(dep.Name, pod.Name, "owns")])

OwnsEdges(dep, pod) ==
    LET owners == pod.OwnerReferences
    IN  Edges(Len(owners),
              [o \in 1 .. Len(owners) |->
                  owners[o].Kind = "Deployment" /\ owners[o].Name = dep.Name],
              [o \in 1 .. Len(owners) |-> Relationship(dep.Name, pod.Name, "owns")])

\* getDeploymentRelationships
getDeploymentRelationships(c) ==
    Concat([d \in 1 .. Len(c.deployments) |->
        Concat([i \in 1 .. Len(c.pods) |-> OwnsEdges(c.deployments[d], c.pods[i])])])

\* getServiceRelationships
getServiceRelationships(c) ==
    Concat([j \in 1 .. Len(c.services) |->
        Edges(Len(c.pods),
              [i \in 1 .. Len(c.pods) |-> podMatchesService(c.pods[i], c.services[j])],
              [i \in 1 .. Len(c.pods) |->
                  Relationship(c.services[j].Name, c.pods[i].Name, "exposes")])])

\* getResourceRelationships
getResourceRelationships(c) ==
    getPodRelationships(c) \o getDeploymentRelationships(c)
        \o getServiceRelationships(c)

InitRel ==
    /\ pods = Nil
    /\ deployments = << >>
    /\ services = << >>
    /\ configMaps = << >>
    /\ selected = 0
    /\ filter = << >>
    /\ currentView = ResourcePods
    /\ loading = FALSE
    /\ loadingCounter = 0
    /\ dataChan = << >>
    /\ workers = {}
    /\ fgPc = "idle"
    /\ cycle = 0
    /\ creates = 0
    /\ posted = << >>
    /\ handled = 0
    /\ overlapped = FALSE
    /\ fetched = [k \in ResourceTypes |-> NoResult]
    /\ viewMode = ViewModeRelationships
    /\ showHelp = FALSE
    /\ lastKey = NoKey
    /\ filterFlags = NoFlags
    /\ shown = Nil
    /\ passes = 0
    /\ namespace = "kube-system"
    /\ resource = NoResource
    /\ deleteCalls = << >>
    /\ saved = NotSaved
    /\ called = {}
    /\ nsChoice = NoChoice
    /\ cluster \in Clusters
    /\ relationships = NotRelated

\* the relationships view is drawn
DrawRelationships ==
    /\ viewMode = ViewModeRelationships
    /\ ~relationships.computed
    /\ relationships' = [computed |-> TRUE, edges |-> getResourceRelationships(cluster)]
    /\ UNCHANGED <<collVars, viewVars, loading, loadingCounter, dataChan,
                   workers, fgPc, histVars, modeVars, filterFlags, shown,
                   passes, cluster, mutVars>>

NextRel == DrawRelationships

SpecRel == InitRel /\ [][NextRel]_vars

(***************************************************************************)
(* SpecFilter: getFilteredResources as a function of the collection, the   *)
(* filter text and the filter flags, applied to a collection and then to   *)
(* its own result.                                                         *)
(***************************************************************************)
InitFilter ==
    /\ pods \in Collections
    /\ deployments = << >>
    /\ services = << >>
    /\ configMaps = << >>
    /\ selected = 0
    /\ filter \in SearchTexts
    /\ currentView = ResourcePods
    /\ loading = FALSE
    /\ loadingCounter = 0
    /\ dataChan = << >>
    /\ workers = {}
    /\ fgPc = "start"
    /\ cycle = 0
    /\ creates = 0
    /\ posted = << >>
    /\ handled = 0
    /\ overlapped = FALSE
    /\ fetched = [k \in ResourceTypes |-> NoResult]
    /\ viewMode = ViewModeList
    /\ showHelp = FALSE
    /\ lastKey = NoKey
    /\ filterFlags \in FlagStates
    /\ shown = pods
    /\ passes = 0
    /\ namespace = "kube-system"
    /\ resource = NoResource
    /\ deleteCalls = << >>
    /\ saved = NotSaved
    /\ called = {}
    /\ nsChoice = NoChoice
    /\ cluster = NoCluster
    /\ relationships = NotRelated

FilterPass ==
    /\ passes < MaxPasses
    /\ shown' = ViewUnder(shown, currentView, filter, filterFlags)
    /\ passes' = passes + 1
    /\ UNCHANGED <<collVars, viewVars, loading, loadingCounter, dataChan,
                   workers, fgPc, histVars, modeVars, filterFlags, relVars,
                   mutVars>>

NextFilter == FilterPass

SpecFilter == InitFilter /\ [][NextFilter]_vars

(***************************************************************************)
(* Properties.                                                             *)
(***************************************************************************)
Max(a, b) == IF a >= b THEN a ELSE b

\* the consumer takes the oldest update in this step
Consumes == dataChan # << >> /\ dataChan' = Tail(dataChan)

\* some goroutine cannot send: the channel is full
SendBlocked == workers # {} /\ Len(dataChan) >= DataChanCap

\* the cycles whose goroutines have been started
LaunchedCycles == 1 .. (IF fgPc = "refresh" THEN cycle - 1 ELSE cycle)

\* C1: once the first refresh has been initiated, loading is true exactly
\* when loadingCounter is greater than 0, whatever the foreground loop
\* (createPod included), the workers and the consumer have done.
LoadingIffPending == cycle > 0 => (loading = (loadingCounter > 0))

\* C2: in every state 0 <= selected < max(1, length of the filtered view of
\* the current kind); in particular selected = 0 when that view is empty.
SelectionInRange ==
    /\ 0 <= selected
    /\ selected < Max(1, Len(getFilteredResources))

\* C3: every goroutine a refresh cycle started for a kind has sent no update
\* while it runs and exactly one update, tagged with its own kind, once it
\* has finished, whether its list call succeeded or failed; every cycle
\* starts one goroutine per kind.
ExactlyOneResultPerWorker ==
    /\ DOMAIN posted = UNION { Launched(c) : c \in LaunchedCycles }
    /\ workers \subseteq DOMAIN posted
    /\ \A w \in DOMAIN posted : posted[w] = IF w \in workers THEN 0 ELSE 1

\* C3 witness: all goroutines of a cycle have finished; a failed and a
\* successful list call each left its update in the channel.
FailedAndSucceededPosted ==
    /\ cycle > 0 /\ fgPc = "idle" /\ workers = {}
    /\ \E i, j \in 1 .. Len(dataChan) : dataChan[i].Error /\ ~dataChan[j].Error

\* C4: in a refresh cycle that did not start over unconsumed results of an
\* earlier cycle, loadingCounter is NumResourceTypes minus the number of
\* this cycle's results consumed so far: it starts at NumResourceTypes and
\* is 0 exactly when the last of them has been consumed, never below.
CounterCountsDown ==
    (cycle > 0 /\ ~overlapped) =>
        /\ handled \in 0 .. NumResourceTypes
        /\ loadingCounter = NumResourceTypes - handled

\* C4 witness: the second refresh cycle, started after the first was
\* consumed, has all its results consumed and the counter is 0.
SecondCycleCountedDown ==
    /\ cycle = 2 /\ ~overlapped
    /\ handled = NumResourceTypes /\ loadingCounter = 0

\* kind A's fetch failed and every other kind's fetch succeeded in the
\* current cycle, which did not overlap another, and all results are consumed
OnlyFailed(A) ==
    /\ cycle > 0 /\ ~overlapped /\ handled = NumResourceTypes
    /\ fetched[A].Error
    /\ \A B \in ResourceTypes \ {A} : fetched[B].seen /\ ~fetched[B].Error

StaleResultDecrements ==
    [][(Consumes /\ Head(dataChan).cycle < cycle)
         => loadingCounter' = loadingCounter - 1]_vars

\* C6 witness: loading is already false in the second cycle although not all
\* of that cycle's results have been consumed.
LoadingClearedEarly ==
    /\ cycle >= 2 /\ fgPc = "idle"
    /\ loading = FALSE
    /\ handled < NumResourceTypes

\* C7: refreshData sets loading and loadingCounter = NumResourceTypes when it
\* begins, and the step that starts the goroutines of a cycle belongs to that
\* refreshData call and leaves all four collections empty; before that step
\* no goroutine and no update of the cycle exists.
ResetAndClearBeforeLaunch ==
    [][/\ (fgPc # "refresh" /\ fgPc' = "refresh") =>
              /\ loading' = TRUE
              /\ loadingCounter' = NumResourceTypes
              /\ \A w \in workers' : w.cycle < cycle'
              /\ \A i \in 1 .. Len(dataChan') : dataChan'[i].cycle < cycle'
       /\ (workers' \ workers # {}) =>
              /\ fgPc = "refresh"
              /\ workers' \ workers = Launched(cycle)
              /\ pods' = Nil /\ deployments' = Nil
              /\ services' = Nil /\ configMaps' = Nil
       /\ Consumes => Head(dataChan).cycle \in LaunchedCycles]_vars

\* C7 witness: the second refresh has just started its goroutines: the
\* counter is reset, loading is set and the collections are empty.
SecondCycleLaunched ==
    /\ cycle = 2 /\ fgPc = "idle"
    /\ Launched(2) \subseteq workers
    /\ loading /\ loadingCounter = NumResourceTypes
    /\ pods = Nil /\ deployments = Nil /\ services = Nil /\ configMaps = Nil

\* C8 as claimed: no goroutine's send ever blocks, however many refreshes
\* are started before earlier results are consumed.
SendNeverBlocks == ~SendBlocked

\* C8 as amended: no goroutine's send blocks while the results not yet
\* consumed are those of at most two refresh cycles.
TwoCyclesNeverBlock ==
    Outstanding <= 2 * NumResourceTypes => ~SendBlocked

\* C8 witness: the results of two refresh cycles are all in the channel and
\* the consumer has received none of them.
TwoCyclesQueued ==
    /\ cycle = 2 /\ workers = {}
    /\ Len(dataChan) = 2 * NumResourceTypes

\* C9: handling an update that carries an error leaves the collection of its
\* kind as it was; handling one without error replaces that collection by the
\* delivered data.
ErrorLeavesCollection ==
    [][\A k \in ResourceTypes :
         (Consumes /\ Head(dataChan).ResourceType = k) =>
             IF Head(dataChan).Error
             THEN Collection(k)' = Collection(k)
             ELSE Collection(k)' = Head(dataChan).Data]_vars

\* C10: right after the consumer handles the update that brings
\* loadingCounter to 0, loading is false and selected is below
\* max(1, length of the filtered view of the current kind).
ClampedWhenLoaded ==
    [][(Consumes /\ loadingCounter' = 0) =>
         /\ loading' = FALSE
         /\ selected' < Max(1, Len(getFilteredResources'))]_vars

\* C11: the consumer is the only writer of the collections and of
\* loadingCounter: every step that changes pods, deployments, services,
\* configMaps or loadingCounter is the consumer handling an update, never a
\* step of the foreground loop (refreshData, createPod) or of a worker.
ConsumerOnlyWriter ==
    [][(collVars' # collVars \/ loadingCounter' # loadingCounter)
         => Consumes]_vars

\* C12: the consumer never writes the selection index or the filter: a step
\* in which the consumer handles an update leaves selected and filter as
\* they were.
ConsumerLeavesSelection ==
    [][Consumes => (selected' = selected /\ filter' = filter)]_vars

\* the foreground loop is inside createPod, waiting for k8s.CreatePod and
\* k8s.ListPods to answer; it polls no input event until they have
ForegroundInGatewayCall == fgPc = "create"

\* C13: the foreground loop never performs a gateway call itself, so it is
\* never waiting for the gateway instead of polling the next input event.
ForegroundNeverCallsGateway == ~ForegroundInGatewayCall

\* C14: with the collections held fixed, after any sequence of
\* moveSelection, kind switches and filter changes, selected lies in
\* [0, len(filtered view of the current kind) - 1], and is 0 when that view
\* is empty.
SelectionWithinFilteredView ==
    selected \in 0 .. (Max(1, Len(getFilteredResources)) - 1)

\* C14 witness: under a non-empty filter, on a kind other than the initial
\* one, the selection has been moved to the second row.
MovedUnderFilter ==
    /\ filter # << >> /\ currentView # ResourcePods
    /\ selected = 1 /\ Len(getFilteredResources) = 2

\* the step handles the key 'v'
CyclingStep == lastKey'.key = "v" /\ viewMode' # viewMode

\* the successor the cycle is said to have
CycleSuccessor(mode, kind) ==
    CASE mode = ViewModeList -> ViewModeDetails
      [] mode = ViewModeDetails -> ViewModeYAML
      [] mode = ViewModeYAML ->
            IF kind = ResourcePods THEN ViewModeLogs ELSE ViewModeRelationships
      [] mode = ViewModeLogs -> ViewModeRelationships
      [] mode = ViewModeRelationships -> ViewModeList

\* C15: the cycling key follows List -> Details -> YAML -> Relationships ->
\* List when the current kind is not Pod and List -> Details -> YAML -> Logs
\* -> Relationships -> List when it is Pod.
CycleVisitsRelationships ==
    [][CyclingStep => viewMode' = CycleSuccessor(viewMode, currentView)]_vars

\* C16: every step that puts the view mode into Logs is taken while the
\* current kind is Pod, and when it is not the cycling key it is taken in
\* Details.
LogsOnlyForPods ==
    [][(viewMode' = ViewModeLogs /\ viewMode # ViewModeLogs) =>
          /\ currentView = ResourcePods /\ currentView' = ResourcePods
          /\ (~CyclingStep => viewMode = ViewModeDetails)]_vars

\* C16 witness: the key 'j' has just opened the logs of a pod from Details.
LogsOpenedFromDetails ==
    /\ lastKey.key = "j" /\ lastKey.mode = ViewModeDetails /\ ~lastKey.help
    /\ viewMode = ViewModeLogs /\ currentView = ResourcePods

\* the step handles the Escape key
EscapeStep ==
    /\ lastKey'.key = "esc"
    /\ <<viewMode, showHelp, fgPc>>' # <<viewMode, showHelp, fgPc>>

\* Escape leaves the view mode List, Run goes on and nothing else changes
BackToList ==
    /\ viewMode' = ViewModeList
    /\ fgPc' = fgPc
    /\ UNCHANGED <<collVars, viewVars, loading, loadingCounter, filterFlags>>

\* C17 as claimed: from every non-List view mode Escape sets the view mode
\* to List, without ending the program or changing any other field.
EscapeAlwaysBackToList ==
    [][(EscapeStep /\ viewMode # ViewModeList) => BackToList]_vars

\* C17 as amended: the same, while the help screen is not shown.
EscapeBackToListUnlessHelp ==
    [][(EscapeStep /\ viewMode # ViewModeList /\ ~showHelp) => BackToList]_vars

\* C17 witness: Escape has just been handled in Logs with the second row
\* selected; the view mode is List and Run goes on.
EscapedFromLogs ==
    /\ lastKey.key = "esc" /\ lastKey.mode = ViewModeLogs /\ ~lastKey.help
    /\ viewMode = ViewModeList /\ fgPc = "idle"
    /\ selected = 1

\* text occurs in name, compared as written or with both folded to lower case
HasSubstring(name, text, asWritten) ==
    LET Fold(c) == IF asWritten THEN c ELSE ToLowerChar(c)
    IN  \E i \in 0 .. (Len(name) - Len(text)) :
            \A j \in 1 .. Len(text) : Fold(name[i + j]) = Fold(text[j])

\* C18: with the inverse flag unset and no column filter, the filtered view is exactly the
\* resources of the collection whose name contains the filter text, in their
\* original order; the comparison ignores case unless caseSensitive is set,
\* and an empty filter returns the whole collection.
FilterKeepsMatches ==
    (passes = 1 /\ ~filterFlags.inverseFilter
       /\ filterFlags.columnFilters = NoColumnFilters) =>
        shown = SelectSeq(pods,
                          LAMBDA r : HasSubstring(r, filter,
                                                  filterFlags.caseSensitive))

\* C18 witness: the filter "b" over a, B, compared without case, yields
\* exactly B.
FilterFoundOne ==
    /\ passes = 1 /\ filterFlags = NoFlags
    /\ filter = <<"b">> /\ pods = <<NameA, NameB>>
    /\ shown = <<NameB>>

\* C19: filtering is idempotent: filtering the result of a filtering pass
\* again, with the same text and flags, returns it unchanged.
FilterIdempotent ==
    [][passes >= 1 => shown' = shown]_vars

\* C19 witness: the second pass has run over a proper, non-empty part of the
\* collection, in advanced mode with the inverse flag set.
FilteredTwice ==
    /\ passes = 2
    /\ filterFlags.filterMode /\ filterFlags.inverseFilter
    /\ shown # pods /\ shown # << >>

\* the filtered view of the collection with the inverse flag unset
PlainView ==
    ViewUnder(pods, currentView, filter,
              [filterFlags EXCEPT !.inverseFilter = FALSE])

RegexFlagIgnored ==
    passes = 1 =>
        shown = ViewUnder(pods, currentView, filter,
                          [filterFlags EXCEPT !.useRegex = ~filterFlags.useRegex])

\* C21 witness: in advanced mode with useRegex set, a global filter and a
\* column filter have together kept a proper, non-empty part of the
\* collection.
RegexFiltered ==
    /\ passes = 1
    /\ filterFlags.useRegex /\ filterFlags.filterMode
    /\ filter # << >> /\ filterFlags.columnFilters # NoColumnFilters
    /\ shown # pods /\ shown # << >>

\* x clamped into lo .. hi
Clamp(x, lo, hi) == IF x < lo THEN lo ELSE IF x > hi THEN hi ELSE x

\* the fields of the view other than the selection, the kind and the filter
RestOfView == <<collVars, loading, loadingCounter, viewMode, filterFlags>>

\* C22: moveSelection(delta) leaves selected unchanged when the filtered
\* view of the current kind is empty, otherwise sets it to selected + delta
\* clamped into [0, len(filtered view) - 1]; it changes no other field.
MoveSelectionClamps ==
    [][\A delta \in {-1, 1} :
         lastKey'.key = (IF delta = 1 THEN "right" ELSE "left") =>
            /\ selected' = IF getFilteredResources = << >>
                           THEN selected
                           ELSE Clamp(selected + delta, 0,
                                      Len(getFilteredResources) - 1)
            /\ UNCHANGED <<currentView, filter, RestOfView>>]_vars

\* C22 witness: under a non-empty filter the Right key has moved the
\* selection from the first to the second row of the filtered view.
MovedRightUnderFilter ==
    /\ lastKey.key = "right" /\ lastKey.sel = 0
    /\ filter # << >> /\ selected = 1

\* C23: every kind switch, by Tab or by a numeric key, sets currentView to
\* the new kind and selected to 0 in the same step, whatever selected was
\* and whatever the sizes of the two collections.
KindSwitchResets ==
    [][/\ lastKey'.key = "tab" =>
              (currentView' = (currentView + 1) % NumResourceTypes /\ selected' = 0)
       /\ \A k \in ResourceTypes :
              lastKey'.key = KindKey(k) => (currentView' = k /\ selected' = 0)]_vars

\* C23 witness: with the second of two pods selected, the key '2' has
\* switched to the deployments, a shorter collection; selected is 0.
SwitchedToShorterKind ==
    /\ lastKey.key = "2" /\ lastKey.sel = 1
    /\ Len(pods) = 2 /\ Len(deployments) < 2
    /\ currentView = ResourceDeployments /\ selected = 0

\* C24: confirming the search dialog and clearing the filter set selected
\* to 0 in the same step (clearing empties the filter); cancelling the search
\* dialog leaves filter and selected unchanged.
FilterChangeResets ==
    [][/\ lastKey'.key = "search" => selected' = 0
       /\ lastKey'.key = "clear" => (filter' = << >> /\ selected' = 0)
       /\ lastKey'.key = "cancel" => (filter' = filter /\ selected' = selected)]_vars

\* C24 witness: with the second row selected, the search dialog has been
\* confirmed with a non-empty text; selected is 0.
SearchConfirmed ==
    /\ lastKey.key = "search" /\ lastKey.sel = 1
    /\ filter # << >> /\ selected = 0

\* a step createPod can take when k8s.CreatePod has returned an error: the
\* foreground loop leaves createPod without reloading the pods
FailedCreateReturn ==
    /\ fgPc = "create" /\ fgPc' = "idle"
    /\ pods' = pods /\ selected' = selected

\* a step deleteSelectedResource takes when the delete call has returned an
\* error
FailedDeleteReturn == fgPc = "delete" /\ fgPc' = "idle"

\* C26: a failed mutation does not affect refresh state: the step in which
\* a failed create or delete returns changes neither loadingCounter nor a
\* collection, and when no result was consumed since the mutation began,
\* loading is what it was before the mutation, also during a refresh.
FailedMutationKeepsRefreshState ==
    [][/\ FailedCreateReturn =>
              /\ loadingCounter' = loadingCounter
              /\ collVars' = collVars
              /\ (loadingCounter = saved.loadingCounter => loading' = saved.loading)
       /\ FailedDeleteReturn =>
              UNCHANGED <<loading, loadingCounter, collVars>>]_vars

\* C27: a newly constructed TUI has view mode List, current kind Pods,
\* selected 0, an empty filter, loading false, loadingCounter 0 and the
\* namespace "kube-system".
FreshTUI ==
    fgPc = "start" =>
        /\ viewMode = ViewModeList
        /\ currentView = ResourcePods
        /\ selected = 0
        /\ filter = << >>
        /\ loading = FALSE
        /\ loadingCounter = 0
        /\ namespace = "kube-system"

\* C27 witness: the TUI as NewTUI returned it, before Run starts the first
\* refresh.
Constructed == fgPc = "start" /\ cycle = 0 /\ workers = {} /\ dataChan = << >>

\* C28: from the consumption of a cycle's last result until the next
\* refresh starts, no step changes a collection; create and delete leave
\* the collections unchanged unless they start a refresh.
CollectionsPersistBetweenRefreshes ==
    [][(cycle > 0 /\ Outstanding = 0 /\ fgPc # "refresh")
         => collVars' = collVars]_vars

\* C25: a delete call is issued only in answer to the prompt, by the answer
\* 'y', and it names the kind and name of the resource that was selected
\* when the prompt was shown (kept while the prompt is up, whatever the
\* consumer does meanwhile); any other answer issues no delete call and
\* starts no refresh.
DeleteOnlyConfirmed ==
    [][/\ (fgPc # "confirm" /\ fgPc' = "confirm") =>
              /\ selected \in 0 .. (Len(getFilteredResources) - 1)
              /\ resource'.kind = currentView
              /\ resource'.name = getFilteredResources[selected + 1]
       /\ (fgPc = "confirm" /\ fgPc' = "confirm") => resource' = resource
       /\ (deleteCalls' # deleteCalls) =>
              /\ fgPc = "confirm" /\ lastKey'.key = "y"
              /\ deleteCalls' = Append(deleteCalls,
                                       [kind |-> resource.kind,
                                        name |-> resource.name,
                                        namespace |-> namespace])
       /\ (fgPc = "confirm" /\ fgPc' # "confirm" /\ lastKey'.key # "y") =>
              /\ deleteCalls' = deleteCalls
              /\ cycle' = cycle
              /\ fgPc' = "idle"]_vars

\* C25 witness: the second pod was selected and its deletion confirmed; the
\* call was issued and succeeded, and the refresh it started has emptied the
\* collections.
SecondPodDeleted ==
    /\ deleteCalls = << [kind |-> ResourcePods, name |-> NameB,
                         namespace |-> "kube-system"] >>
    /\ cycle = 2 /\ fgPc = "idle" /\ pods = Nil

Queued(w) ==
    \E i \in 1 .. Len(dataChan) :
        dataChan[i].ResourceType = w.ResourceType /\ dataChan[i].cycle = w.cycle

\* the goroutine w has sent its one result and the consumer has taken it
Consumed(w) == w \notin workers /\ posted[w] = 1 /\ ~Queued(w)

\* C30: under fair scheduling, with list calls that return, whenever
\* goroutines of a refresh are running a state is eventually reached in
\* which the result of every goroutine launched so far has been consumed,
\* and once no further refresh is started (the cycle number stays the same
\* for ever) loading eventually becomes false and stays false.
EveryResultConsumed ==
    /\ (workers # {}) ~> (\A w \in DOMAIN posted : Consumed(w))
    /\ \A c \in 0 .. MaxRefresh :
           <>[](cycle = c) => <>[](loading = FALSE)

\* C30 witness: a second refresh was started over unconsumed results of the
\* first; every goroutine of both cycles has had its result consumed, one of
\* them a failed one, and loading is false.
BothCyclesConsumed ==
    /\ cycle = 2 /\ overlapped /\ fgPc = "idle"
    /\ \A c \in 1 .. 2 : \A w \in Launched(c) : w \in DOMAIN posted /\ Consumed(w)
    /\ \E k \in ResourceTypes : fetched[k].Error
    /\ loading = FALSE

\* every key of the selector is a key of the pod's labels, with the
\* selector's value
SelectorPresent(pod, svc) ==
    \A key \in DOMAIN svc.Selector :
        key \in DOMAIN pod.Labels /\ pod.Labels[key] = svc.Selector[key]

\* the sequence of edges has the edge
HasEdge(edges, from, to, type) ==
    \E e \in 1 .. Len(edges) : edges[e] = Relationship(from, to, type)

\* C31: a pod matches a service exactly when every key/value pair of the
\* selector is present in the pod's labels with an equal value; a selector
\* key the pod's labels lack never counts as a match.
MatchIffSelectorPresent ==
    \A i \in 1 .. Len(cluster.pods) : \A j \in 1 .. Len(cluster.services) :
        podMatchesService(cluster.pods[i], cluster.services[j])
            <=> SelectorPresent(cluster.pods[i], cluster.services[j])

\* C39: in the edges getResourceRelationships returned, a service "exposes"
\* a pod exactly when the pod is "exposed-by" the service, and every
\* deployment that "owns" a pod has the pod "owned-by" the deployment.
EdgesConsistent ==
    relationships.computed =>
        LET edges == relationships.edges
        IN  /\ \A i \in 1 .. Len(cluster.pods) : \A j \in 1 .. Len(cluster.services) :
                   HasEdge(edges, cluster.services[j].Name, cluster.pods[i].Name, "exposes")
                     <=> HasEdge(edges, cluster.pods[i].Name, cluster.services[j].Name, "exposed-by")
            /\ \A e \in 1 .. Len(edges) :
                   edges[e].RelationType = "owns" =>
                       HasEdge(edges, edges[e].To, edges[e].From, "owned-by")

\* C39 witness: the relationships are derived for a pod that the service
\* selects by two labels and that the loaded deployment owns; the four edges
\* between them are there.
OwnedAndExposed ==
    /\ relationships.computed
    /\ DOMAIN cluster.services[1].Selector = LabelKeys
    /\ HasEdge(relationships.edges, NameA, NameA, "owns")
    /\ HasEdge(relationships.edges, NameA, NameA, "owned-by")
    /\ HasEdge(relationships.edges, NameA, NameA, "exposes")
    /\ HasEdge(relationships.edges, NameA, NameA, "exposed-by")

\* C35: in every reachable state 0 <= loadingCounter <= 4, the number of
\* goroutines one refreshData starts, also when refreshes overlap.
CounterInRange == loadingCounter \in 0 .. NumResourceTypes

\* C36: in every reachable state the view mode Logs implies the current
\* kind Pods, whatever keys were pressed.
LogsImpliesPods == viewMode = ViewModeLogs => currentView = ResourcePods

WholeLists(k) == { r.Data : r \in UnevenGateway[k] }

\* C32: in every reachable state each collection is empty or is, in full
\* and in order, the list one gateway list call returned for its kind: never
\* a mixture of two responses or a prefix of one.
CollectionsWhole ==
    \A k \in ResourceTypes :
        Collection(k) = Nil \/ Collection(k) \in WholeLists(k)

\* the step in which createPod returns
CreateReturns == fgPc = "create" /\ fgPc' = "idle"

\* C38: a pod creation leaves currentView and the filter unchanged, leaves
\* selected unchanged when the current kind is not Pods, and changes
\* selected only when it lies outside the filtered view of the current kind,
\* to bring it inside.
CreateKeepsSelection ==
    [][CreateReturns =>
         /\ currentView' = currentView
         /\ filter' = filter
         /\ (currentView # ResourcePods => selected' = selected)
         /\ (selected' # selected =>
                /\ selected >= Len(getFilteredResources')
                /\ selected' = Max(0, Len(getFilteredResources') - 1))]_vars

\* C33: Enter in the namespace dialog on a namespace other than the current
\* one sets the namespace and starts exactly one refresh cycle; Enter on the
\* current namespace and Escape change neither the namespace, a collection,
\* loadingCounter nor loading, and start no refresh.
NamespaceSwitchRefreshes ==
    [][(fgPc = "nsdialog" /\ fgPc' # "nsdialog") =>
         IF nsChoice'.key = "enter" /\ nsChoice'.name # namespace
         THEN /\ namespace' = nsChoice'.name
              /\ cycle' = cycle + 1
              /\ fgPc' = "refresh"
              /\ loading' = TRUE
              /\ loadingCounter' = NumResourceTypes
         ELSE /\ fgPc' = "idle"
              /\ UNCHANGED <<namespace, collVars, loadingCounter, loading, cycle>>]_vars

\* C33 witness: the dialog was left with Enter on "default"; the namespace
\* is "default" and the one refresh cycle this started, the second, has run
\* to its end with "default" lists.
SwitchedToDefault ==
    /\ nsChoice = [key |-> "enter", name |-> "default"]
    /\ namespace = "default" /\ cycle = 2 /\ fgPc = "idle"
    /\ Outstanding = 0 /\ handled = NumResourceTypes
    /\ pods = NsList("default", ResourcePods)

\* loading is false, dataChan is empty and no list goroutine is running
Quiescent == loading = FALSE /\ dataChan = << >> /\ workers = {}

\* C34: whenever the system is quiescent, every non-empty collection holds
\* the list fetched for the current namespace: no result fetched for a
\* previous namespace remains after a namespace switch has completed.
CollectionsOfCurrentNamespace ==
    Quiescent =>
        \A k \in ResourceTypes :
            Collection(k) = Nil \/ Collection(k) = NsList(namespace, k)

====
